---- MODULE Spec2Model ----
(***************************************************************************)
(* A model of the computational core of the finance assistant:             *)
(*   services/risk_service.py      RiskAnalysisService                     *)
(*   services/analysis_service.py  AnalysisService                         *)
(*   services/ai_advisor.py        AIAdvisor                               *)
(*   models/portfolio.py, app.py   the holdings table and its API          *)
(*                                                                         *)
(* Numbers.  The code computes in binary floating point; the model         *)
(* computes in exact rational arithmetic on integers:                      *)
(*   - a money value is an integer (shares * price);                       *)
(*   - a value rounded by the code to k decimals is the integer number of  *)
(*     10^-k units (beta 1.05 is 105 hundredths, a weight of 33.3 % is 333 *)
(*     tenths);                                                            *)
(*   - round(x, k) is RoundDiv: nearest, ties to even, as Python's round   *)
(*     on a value that is exactly representable.                           *)
(* The services are stateless: the only state kept between calls is the    *)
(* holdings table.  Every other variable records the last call of an       *)
(* operation: the answers the market-data provider gave it and its result. *)
(***************************************************************************)
EXTENDS Integers, Sequences, FiniteSets

VARIABLES
    holdings,   \* the holdings table, rows in insertion (id) order
    env,        \* the provider's answers during the last /api/risk call
    report,     \* the result of the last analyze_portfolio_risk call
    mcall,      \* the last call of a per-symbol risk metric: frames and result
    icall,      \* the last call of a technical indicator: frame and result
    acall       \* the last get_recommendation call: provider answers and result

vars == <<holdings, env, report, mcall, icall, acall>>

portfolioVars == <<holdings, env, report>>

metricsVars == <<mcall>>

indicatorVars == <<icall>>

advisorVars == <<acall>>

(***************************************************************************)
(* Bounds of the model                                                     *)
(***************************************************************************)
\* rows the holdings table may hold
MaxHoldings == 2

\* bars of the longest price frame of the risk metrics
MaxBars == 22

\* price frames repeat a motif of at most this many closes
MaxMotif == 3

\* rows of the holdings table when the market answers are few
MaxWideHoldings == 4

\* bars of the longest price frame of the technical summary
MaxSummaryBars == 61

\* symbols of the longest list given to get_portfolio_recommendations
MaxSymbolList == 2

(***************************************************************************)
(* Arithmetic helpers                                                      *)
(***************************************************************************)
Abs(x) == IF x < 0 THEN -x ELSE x

Min(a, b) == IF a <= b THEN a ELSE b

\* floor(a / b) for b > 0
FloorDiv(a, b) == a \div b

\* round(a / b) to the nearest integer, ties to the even one; b # 0
RoundDiv(a, b) ==
    LET n == IF b < 0 THEN -a ELSE a
        d == Abs(b)
        q == FloorDiv(n, d)
        r == n - q * d
    IN  IF 2 * r < d THEN q
        ELSE IF 2 * r > d THEN q + 1
        ELSE IF q % 2 = 0 THEN q ELSE q + 1

RECURSIVE SumSeq(_)
SumSeq(s) == IF s = <<>> THEN 0 ELSE Head(s) + SumSeq(Tail(s))

(***************************************************************************)
(* Market data as the risk service sees it (services/stock_service.py)     *)
(*                                                                         *)
(* get_stock_info answers with an error record (no current_price key),     *)
(* with current_price = None (the provider's field is present and empty),  *)
(* or with a price.  get_historical_data answers with a frame of `bars`    *)
(* rows (0: the empty frame of a failed fetch).                            *)
(* The magnitudes that need a square root (the volatility, and with it the *)
(* sharpe ratio) are not computable in integers: when the code computes    *)
(* them, the model draws them from the small sets below.                   *)
(***************************************************************************)
Symbols == {"AAA", "BBB"}

\* ORDER BY symbol
SymbolOrder == <<"AAA", "BBB">>

MARKET_INDEX == "^GSPC"

\* float(data['shares']), float(data['avg_cost']): not validated by the API
SharesSet == {-1, 1, 2}

AvgCostSet == {1}

InfoError == [kind |-> "error", price |-> 0]

InfoNone == [kind |-> "none", price |-> 0]

InfoPrice(p) == [kind |-> "price", price |-> p]

InfoAnswers == {InfoError, InfoNone} \cup {InfoPrice(p) : p \in {0, 2}}

\* len(df) < 20 (calculate_volatility, calculate_sharpe_ratio)
MinBars == 20

\* len(stock_returns) < 20 (calculate_beta)
MinReturns == 20

\* the lengths of a symbol's frame around the guards: the empty frame of a
\* failed fetch, MinBars rows, one more
BarCounts == {0, MinBars, MinBars + 1}

\* the lengths of the market index's frame: empty, a single bar, enough
MarketBarCounts == {0, 1, MinReturns + 1}

\* what the metrics of a symbol come to when they are computed, in the units
\* of the results: hundredths (volatility in %, beta, sharpe, drawdown in %)
Profiles ==
    { [vol |-> 0, beta |-> 100, sharpe |-> 0, dd |-> 0],
      [vol |-> 3500, beta |-> 160, sharpe |-> 120, dd |-> -2500] }

NoProfile == [vol |-> 0, beta |-> 100, sharpe |-> 0, dd |-> 0]

\* the answers about one symbol; no magnitude is drawn for a frame on which
\* nothing is computed
SymEnv ==
    { a \in [info : InfoAnswers, bars : BarCounts, profile : Profiles] :
        a.bars < MinBars => a.profile = NoProfile }

\* the answers for a symbol nobody asks about
IdleSymEnv == [info |-> InfoError, bars |-> 0, profile |-> NoProfile]

IdleEnv == [sym |-> [s \in Symbols |-> IdleSymEnv], marketBars |-> 0]

\* the provider's answers during one call that asks about the symbols `held`
EnvSet(held) ==
    { [sym |-> f, marketBars |-> mb] :
        f \in { g \in [Symbols -> SymEnv] :
                    \A s \in Symbols \ held : g[s] = IdleSymEnv },
        mb \in MarketBarCounts }

(***************************************************************************)
(* The holdings table (models/portfolio.py)                                *)
(***************************************************************************)
Holding == [symbol : Symbols, shares : SharesSet, avg_cost : AvgCostSet]

RECURSIVE ConcatBySymbol(_, _)
ConcatBySymbol(rows, order) ==
    IF order = <<>> THEN <<>>
    ELSE SelectSeq(rows, LAMBDA r : r.symbol = Head(order))
            \o ConcatBySymbol(rows, Tail(order))

\* SELECT * FROM holdings ORDER BY symbol
GetAllHoldings(rows) == ConcatBySymbol(rows, SymbolOrder)

\* INSERT INTO holdings
AddHolding(rows, symbol, shares, avg_cost) ==
    Append(rows, [symbol |-> symbol, shares |-> shares, avg_cost |-> avg_cost])

\* DELETE FROM holdings WHERE id = ?
DeleteHolding(rows, i) ==
    [j \in 1..(Len(rows) - 1) |-> IF j < i THEN rows[j] ELSE rows[j + 1]]

(***************************************************************************)
(* RiskAnalysisService, per symbol, on a frame of `bars` rows              *)
(* (services/risk_service.py).  pct_change().dropna() leaves bars - 1      *)
(* returns of a non-empty frame.                                           *)
(***************************************************************************)
\* len(df['Close'].pct_change().dropna())
ReturnsLen(bars) == IF bars = 0 THEN 0 ELSE bars - 1

\* df.empty or len(df) < 20
InsufficientBars(bars) == bars = 0 \/ bars < MinBars

\* len(series.iloc[-min_len:]) of a series of n >= min_len elements:
\* iloc[-0:] is the whole series
TailLen(n, min_len) == IF min_len = 0 THEN n ELSE min_len

\* calculate_volatility, given the magnitudes p it computes
VolData(bars, p) ==
    IF InsufficientBars(bars)
    THEN [kind |-> "error", annual_volatility |-> 0, max_drawdown |-> 0,
          data_points |-> 0]
    ELSE [kind |-> "ok", annual_volatility |-> p.vol, max_drawdown |-> p.dd,
          data_points |-> ReturnsLen(bars)]

\* the guards of calculate_beta on frames of `bars` and `marketBars` rows:
\* "error" (an error record), "raise" (np.cov raises on samples of different
\* lengths) or "ok"
BetaGuard(bars, marketBars) ==
    IF bars = 0 \/ marketBars = 0 THEN "error"
    ELSE LET min_len == Min(ReturnsLen(bars), ReturnsLen(marketBars))
             stockLen == TailLen(ReturnsLen(bars), min_len)
             marketLen == TailLen(ReturnsLen(marketBars), min_len)
         IN  IF stockLen < MinReturns THEN "error"
             ELSE IF stockLen # marketLen THEN "raise"
             ELSE "ok"

\* calculate_beta, given the beta p.beta it computes
BetaData(bars, marketBars, p) ==
    [kind |-> BetaGuard(bars, marketBars),
     beta |-> IF BetaGuard(bars, marketBars) = "ok" THEN p.beta ELSE 0]

\* calculate_sharpe_ratio
SharpeData(bars, p) ==
    IF InsufficientBars(bars)
    THEN [kind |-> "error", sharpe_ratio |-> 0]
    ELSE [kind |-> "ok", sharpe_ratio |-> p.sharpe]

(***************************************************************************)
(* RiskAnalysisService.analyze_portfolio_risk                              *)
(***************************************************************************)
\* info.get('current_price', holding['avg_cost'])
CurrentPrice(info, avg_cost) ==
    IF info.kind = "error" THEN avg_cost ELSE info.price

\* the try block of the first loop raises: shares * None
ValueRaises(info) == info.kind = "none"

\* the first loop: a holding whose value computation raises is skipped
\* (except: continue)
StockData(hs, e) ==
    LET kept == SelectSeq(hs, LAMBDA h : ~ValueRaises(e.sym[h.symbol].info))
    IN  [i \in 1..Len(kept) |->
            LET price == CurrentPrice(e.sym[kept[i].symbol].info, kept[i].avg_cost)
            IN  [symbol |-> kept[i].symbol,
                 value |-> kept[i].shares * price,
                 shares |-> kept[i].shares,
                 price |-> price]]

PortfolioValue(sd) == SumSeq([i \in 1..Len(sd) |-> sd[i].value])

\* beta_data.get('beta', 1), in hundredths
DefaultBeta == 100

\* vol_data.get('annual_volatility', 0), sharpe_data.get('sharpe_ratio', 0),
\* vol_data.get('max_drawdown', 0)
DefaultMetric == 0

BetaOrDefault(bd) == IF bd.kind = "ok" THEN bd.beta ELSE DefaultBeta

VolOrDefault(vd) == IF vd.kind = "ok" THEN vd.annual_volatility ELSE DefaultMetric

\* the three metric calls of the second loop for one stock
MetricsOf(symbol, e) ==
    LET se == e.sym[symbol]
    IN  [vol |-> VolData(se.bars, se.profile),
         beta |-> BetaData(se.bars, e.marketBars, se.profile),
         sharpe |-> SharpeData(se.bars, se.profile)]

\* an entry of risk_metrics whose weight is left a fraction of 1, not
\* turned into a percentage
RiskEntryWeightAsFraction(stock, pv, e) ==
    LET m == MetricsOf(stock.symbol, e)
    IN  [symbol |-> stock.symbol,
         weight |-> RoundDiv(10 * stock.value, pv),
         volatility |-> VolOrDefault(m.vol),
         beta |-> BetaOrDefault(m.beta),
         sharpe |-> IF m.sharpe.kind = "ok" THEN m.sharpe.sharpe_ratio
                    ELSE DefaultMetric,
         max_drawdown |-> IF m.vol.kind = "ok" THEN m.vol.max_drawdown
                          ELSE DefaultMetric]

\* one entry of risk_metrics; weight is round(weight * 100, 1) in tenths
RiskEntry(stock, pv, e) ==
    LET m == MetricsOf(stock.symbol, e)
    IN  [symbol |-> stock.symbol,
         weight |-> RoundDiv(1000 * stock.value, pv),
         volatility |-> VolOrDefault(m.vol),
         beta |-> BetaOrDefault(m.beta),
         sharpe |-> IF m.sharpe.kind = "ok" THEN m.sharpe.sharpe_ratio
                    ELSE DefaultMetric,
         max_drawdown |-> IF m.vol.kind = "ok" THEN m.vol.max_drawdown
                          ELSE DefaultMetric]

RiskMetrics(sd, pv, e) == [i \in 1..Len(sd) |-> RiskEntry(sd[i], pv, e)]

\* total_weighted_beta * pv, beta in hundredths: sum of value * beta
WeightedBetaSum(sd, e) ==
    SumSeq([i \in 1..Len(sd) |->
                sd[i].value * BetaOrDefault(MetricsOf(sd[i].symbol, e).beta)])

\* total_weighted_volatility * pv, volatility in hundredths
WeightedVolSum(sd, e) ==
    SumSeq([i \in 1..Len(sd) |->
                sd[i].value * VolOrDefault(MetricsOf(sd[i].symbol, e).vol)])

\* mutant of HhiNum: the weights are summed, not their squares
HhiNumUnsquared(sd) == PortfolioValue(sd) * PortfolioValue(sd)

\* hhi * pv^2: sum of value^2
HhiNum(sd) == SumSeq([i \in 1..Len(sd) |-> sd[i].value * sd[i].value])

\* round((1 - hhi) * 100, 1) in tenths
DiversificationScore(sd, pv) == RoundDiv(1000 * (pv * pv - HhiNum(sd)), pv * pv)

\* the tier when "high" needs both the beta and the volatility
RiskLevelNeedingBoth(portfolio_beta, portfolio_volatility) ==
    IF portfolio_beta > 130 /\ portfolio_volatility > 3000 THEN "high"
    ELSE IF portfolio_beta > 90 \/ portfolio_volatility > 2000 THEN "medium"
    ELSE "low"

RiskLevel(portfolio_beta, portfolio_volatility) ==
    IF portfolio_beta > 130 \/ portfolio_volatility > 3000 THEN "high"
    ELSE IF portfolio_beta > 90 \/ portfolio_volatility > 2000 THEN "medium"
    ELSE "low"

SymbolsOf(stocks) == [i \in 1..Len(stocks) |-> stocks[i].symbol]

\* the recommendations with the concentration warning from 50 on down
GenerateRiskRecommendationsFromFifty(beta, volatility, diversification, stocks) ==
    LET high_weight_stocks == SelectSeq(stocks, LAMBDA s : s.weight > 300)
        high_beta_stocks == SelectSeq(stocks, LAMBDA s : s.beta > 150)
        recommendations ==
            (IF diversification <= 500
             THEN << [rule |-> "concentrated", symbols |-> <<>>] >> ELSE <<>>)
            \o (IF beta > 130
                THEN << [rule |-> "high_beta", symbols |-> <<>>] >> ELSE <<>>)
            \o (IF volatility > 3000
                THEN << [rule |-> "high_volatility", symbols |-> <<>>] >> ELSE <<>>)
            \o (IF high_weight_stocks # <<>>
                THEN << [rule |-> "overweight",
                         symbols |-> SymbolsOf(high_weight_stocks)] >> ELSE <<>>)
            \o (IF high_beta_stocks # <<>>
                THEN << [rule |-> "high_beta_stocks",
                         symbols |-> SymbolsOf(high_beta_stocks)] >> ELSE <<>>)
    IN  IF recommendations = <<>>
        THEN << [rule |-> "well_controlled", symbols |-> <<>>] >>
        ELSE recommendations

\* _generate_risk_recommendations
GenerateRiskRecommendations(beta, volatility, diversification, stocks) ==
    LET high_weight_stocks == SelectSeq(stocks, LAMBDA s : s.weight > 300)
        high_beta_stocks == SelectSeq(stocks, LAMBDA s : s.beta > 150)
        recommendations ==
            (IF diversification < 500
             THEN << [rule |-> "concentrated", symbols |-> <<>>] >> ELSE <<>>)
            \o (IF beta > 130
                THEN << [rule |-> "high_beta", symbols |-> <<>>] >> ELSE <<>>)
            \o (IF volatility > 3000
                THEN << [rule |-> "high_volatility", symbols |-> <<>>] >> ELSE <<>>)
            \o (IF high_weight_stocks # <<>>
                THEN << [rule |-> "overweight",
                         symbols |-> SymbolsOf(high_weight_stocks)] >> ELSE <<>>)
            \o (IF high_beta_stocks # <<>>
                THEN << [rule |-> "high_beta_stocks",
                         symbols |-> SymbolsOf(high_beta_stocks)] >> ELSE <<>>)
    IN  IF recommendations = <<>>
        THEN << [rule |-> "well_controlled", symbols |-> <<>>] >>
        ELSE recommendations

\* some calculate_beta call of the second loop raises; nothing catches it
MetricsRaise(sd, e) ==
    \E i \in 1..Len(sd) : MetricsOf(sd[i].symbol, e).beta.kind = "raise"

AnalyzePortfolioRisk(hs, e) ==
    IF hs = <<>> THEN [kind |-> "error", error |-> "no_holdings"]
    ELSE LET sd == StockData(hs, e)
             pv == PortfolioValue(sd)
         IN  IF pv = 0 THEN [kind |-> "error", error |-> "no_value"]
             ELSE IF MetricsRaise(sd, e) THEN [kind |-> "raised"]
             ELSE LET rm == RiskMetrics(sd, pv, e)
                      pb == RoundDiv(WeightedBetaSum(sd, e), pv)
                      pvol == RoundDiv(WeightedVolSum(sd, e), pv)
                      ds == DiversificationScore(sd, pv)
                  IN  [kind |-> "report",
                       portfolio_value |-> pv,
                       holdings_count |-> Len(sd),
                       portfolio_beta |-> pb,
                       portfolio_volatility |-> pvol,
                       diversification_score |-> ds,
                       risk_level |-> RiskLevel(pb, pvol),
                       stock_risks |-> rm,
                       recommendations |->
                           GenerateRiskRecommendations(pb, pvol, ds, rm)]

(***************************************************************************)
(* The portfolio API (app.py) and the specification of the risk report     *)
(***************************************************************************)
NoReport == [kind |-> "none"]

HeldSymbols(rows) == {rows[i].symbol : i \in 1..Len(rows)}

NoCall == [op |-> "none"]

\* the state after start-up: an empty table, no call made yet
Idle ==
    /\ holdings = <<>>
    /\ env = IdleEnv
    /\ report = NoReport
    /\ mcall = NoCall
    /\ icall = NoCall
    /\ acall = NoCall

InitPortfolio == Idle

\* POST /api/portfolio
ApiPortfolioAdd ==
    /\ report = NoReport
    /\ Len(holdings) < MaxHoldings
    /\ \E h \in Holding :
          holdings' = AddHolding(holdings, h.symbol, h.shares, h.avg_cost)
    /\ UNCHANGED <<env, report, mcall, icall, acall>>

\* DELETE /api/portfolio/<id>
ApiPortfolioDelete ==
    /\ report = NoReport
    /\ \E i \in 1..Len(holdings) : holdings' = DeleteHolding(holdings, i)
    /\ UNCHANGED <<env, report, mcall, icall, acall>>

\* GET /api/risk
ApiPortfolioRisk ==
    /\ report = NoReport
    /\ \E e \in EnvSet(HeldSymbols(holdings)) :
          /\ env' = e
          /\ report' = AnalyzePortfolioRisk(GetAllHoldings(holdings), e)
    /\ UNCHANGED <<holdings, mcall, icall, acall>>

\* the response is sent: jsonify(risk_analysis); requests are served one by one
RiskResponseSent ==
    /\ report # NoReport
    /\ env' = IdleEnv
    /\ report' = NoReport
    /\ UNCHANGED <<holdings, mcall, icall, acall>>

NextPortfolio ==
    ApiPortfolioAdd \/ ApiPortfolioDelete \/ ApiPortfolioRisk \/ RiskResponseSent

SpecPortfolio == InitPortfolio /\ [][NextPortfolio]_vars

(***************************************************************************)
(* The same API on a larger table, with few market answers: every price is *)
(* 2, a frame is empty or long enough, and a computed metric is one of     *)
(* three profiles.                                                         *)
(***************************************************************************)
WideHolding == [symbol : Symbols, shares : {1, 2}, avg_cost : AvgCostSet]

WideProfiles ==
    { [vol |-> 1500, beta |-> 80, sharpe |-> 120, dd |-> -1000],
      [vol |-> 2500, beta |-> 120, sharpe |-> 50, dd |-> -2000],
      [vol |-> 3500, beta |-> 160, sharpe |-> -30, dd |-> -4000],
      [vol |-> 1500, beta |-> 160, sharpe |-> 200, dd |-> -500] }

WideSymEnv ==
    { a \in [info : {InfoPrice(2)}, bars : {0, MinBars + 1},
             profile : WideProfiles \cup {NoProfile}] :
        a.bars < MinBars <=> a.profile = NoProfile }

WideEnvSet(held) ==
    { [sym |-> f, marketBars |-> mb] :
        f \in { g \in [Symbols -> WideSymEnv \cup {IdleSymEnv}] :
                    \A s \in Symbols : g[s] = IdleSymEnv <=> s \notin held },
        mb \in {0, MinReturns + 1} }

InitWidePortfolio == Idle

\* POST /api/portfolio
ApiPortfolioAddWide ==
    /\ report = NoReport
    /\ Len(holdings) < MaxWideHoldings
    /\ \E h \in WideHolding :
          holdings' = AddHolding(holdings, h.symbol, h.shares, h.avg_cost)
    /\ UNCHANGED <<env, report, mcall, icall, acall>>

\* GET /api/risk
ApiPortfolioRiskWide ==
    /\ report = NoReport
    /\ \E e \in WideEnvSet(HeldSymbols(holdings)) :
          /\ env' = e
          /\ report' = AnalyzePortfolioRisk(GetAllHoldings(holdings), e)
    /\ UNCHANGED <<holdings, mcall, icall, acall>>

NextWidePortfolio ==
    ApiPortfolioAddWide \/ ApiPortfolioDelete \/ ApiPortfolioRiskWide
        \/ RiskResponseSent

SpecWidePortfolio == InitWidePortfolio /\ [][NextWidePortfolio]_vars

(***************************************************************************)
(* Claims about the portfolio risk report (checked under SpecPortfolio)    *)
(***************************************************************************)
\* the holdings the last call was given, and the stock_data it built
AnalysedHoldings == GetAllHoldings(holdings)

AnalysedStocks == StockData(AnalysedHoldings, env)

Reported == report.kind = "report"

BetaFailed(symbol) == MetricsOf(symbol, env).beta.kind = "error"

\* some per-holding metric computation of the symbol returned an error
MetricFailed(symbol) ==
    LET m == MetricsOf(symbol, env)
    IN  m.vol.kind = "error" \/ m.beta.kind = "error" \/ m.sharpe.kind = "error"

\* a stock_risks entry that says the holding's metrics are not its own
HasErrorMarker(entry) == "error" \in DOMAIN entry

\* sum of value * beta over the stocks whose beta was computed
ValidBetaSum(sd) ==
    SumSeq([i \in 1..Len(sd) |->
                IF BetaFailed(sd[i].symbol) THEN 0
                ELSE sd[i].value * MetricsOf(sd[i].symbol, env).beta.beta])

\* C1: portfolio_beta is the sum of weight * beta over the holdings whose beta
\* was computed; a holding whose calculate_beta returned an error contributes
\* 0, and the other weights are not renormalized.
C1_FailedBetaContributesZero ==
    Reported =>
        report.portfolio_beta
            = RoundDiv(ValidBetaSum(AnalysedStocks), PortfolioValue(AnalysedStocks))

\* C2: a holding with a failed metric computation still appears in
\* stock_risks, and its entry carries an error marker.
C2_FailedMetricIsMarked ==
    Reported =>
        \A i \in 1..Len(AnalysedStocks) :
            MetricFailed(AnalysedStocks[i].symbol) =>
                /\ i \in DOMAIN report.stock_risks
                /\ report.stock_risks[i].symbol = AnalysedStocks[i].symbol
                /\ HasErrorMarker(report.stock_risks[i])

\* C8: every holding passed to analyze_portfolio_risk is listed in
\* stock_risks; none is omitted from the listing, a holding whose price
\* lookup or value computation fails included.  (That a listed holding whose
\* metrics failed carries an error marker is C2's formula.)
C8_NoHoldingOmitted ==
    Reported =>
        /\ Len(report.stock_risks) = Len(AnalysedHoldings)
        /\ \A i \in 1..Len(AnalysedHoldings) :
              /\ i \in DOMAIN report.stock_risks
              /\ report.stock_risks[i].symbol = AnalysedHoldings[i].symbol

\* some holding contributes a strictly positive value
SomePositiveValue == \E i \in 1..Len(AnalysedStocks) : AnalysedStocks[i].value > 0

\* C9: the call returns the top-level error whenever no holding contributes
\* a strictly positive value, and a report only when some holding does.
C9_ErrorIffNoPositiveValue ==
    /\ report.kind = "error" => ~SomePositiveValue
    /\ Reported => SomePositiveValue
    /\ (report.kind \in {"error", "report"} /\ ~SomePositiveValue)
          => report.kind = "error"

AllPositiveValues == \A i \in 1..Len(AnalysedStocks) : AnalysedStocks[i].value > 0

\* (1 - HHI) * 100 is 0: HHI = 1
FullyConcentrated(sd) ==
    PortfolioValue(sd) * PortfolioValue(sd) = HhiNum(sd)

\* C10 as stated: for n holdings of positive value HHI lies in (1/n, 1], the
\* score in [0, 100), and the score is 0 exactly for a single holding.
C10_HhiAboveOneOverN ==
    (Reported /\ AllPositiveValues) =>
        LET sd == AnalysedStocks
            pv == PortfolioValue(sd)
            n == Len(sd)
        IN  /\ n * HhiNum(sd) > pv * pv
            /\ HhiNum(sd) <= pv * pv
            /\ report.diversification_score \in 0..999
            /\ report.diversification_score = 0 <=> n = 1

\* C10 as amended: HHI lies in [1/n, 1]; (1 - HHI) * 100 lies in [0, 100) and
\* is 0 exactly for a single holding; the reported score is that value
\* rounded to one decimal.
C10_HhiAtLeastOneOverN ==
    (Reported /\ AllPositiveValues) =>
        LET sd == AnalysedStocks
            pv == PortfolioValue(sd)
            n == Len(sd)
        IN  /\ n * HhiNum(sd) >= pv * pv
            /\ HhiNum(sd) <= pv * pv
            /\ HhiNum(sd) > 0
            /\ FullyConcentrated(sd) <=> n = 1
            /\ report.diversification_score
                  = RoundDiv(1000 * (pv * pv - HhiNum(sd)), pv * pv)
            /\ report.diversification_score \in 0..1000

\* a report on two holdings of different positive value: 1/n < HHI < 1
C10_Witness ==
    /\ Reported
    /\ AllPositiveValues
    /\ Len(AnalysedStocks) = 2
    /\ AnalysedStocks[1].value # AnalysedStocks[2].value
    /\ report.diversification_score > 0

\* C19: the tier of a report is "high" when portfolio_beta > 1.3 or
\* portfolio_volatility > 30, otherwise "medium" when portfolio_beta > 0.9
\* or portfolio_volatility > 20, otherwise "low": the tests apply in that
\* order and the tier agrees with the two values reported beside it.
C19_TierMatchesBetaAndVolatility ==
    Reported =>
        report.risk_level =
            IF report.portfolio_beta > 130 \/ report.portfolio_volatility > 3000
            THEN "high"
            ELSE IF report.portfolio_beta > 90
                    \/ report.portfolio_volatility > 2000
                 THEN "medium"
                 ELSE "low"

\* a report whose beta alone puts it in the high tier
C19_Witness ==
    /\ Reported
    /\ report.portfolio_beta > 130
    /\ report.portfolio_volatility <= 2000
    /\ report.risk_level = "high"

\* the rules in the order of the list
RuleOrder ==
    <<"concentrated", "high_beta", "high_volatility", "overweight",
      "high_beta_stocks", "well_controlled">>

RuleRank(rule) == CHOOSE k \in 1..Len(RuleOrder) : RuleOrder[k] = rule

\* the entry of the list that a rule made: present, and with these symbols
HasRule(rule, symbols) ==
    \E i \in 1..Len(report.recommendations) :
        report.recommendations[i] = [rule |-> rule, symbols |-> symbols]

LacksRule(rule) ==
    \A i \in 1..Len(report.recommendations) :
        report.recommendations[i].rule # rule

\* the reported holdings that satisfy P, in the order of stock_risks
Overweight == SelectSeq(report.stock_risks, LAMBDA s : s.weight > 300)

HighBeta == SelectSeq(report.stock_risks, LAMBDA s : s.beta > 150)

NoWarningHolds ==
    /\ report.diversification_score >= 500
    /\ report.portfolio_beta <= 130
    /\ report.portfolio_volatility <= 3000
    /\ Overweight = <<>>
    /\ HighBeta = <<>>

\* C18: the recommendations list holds, in the fixed order, exactly the
\* warnings whose condition holds (diversification_score < 50,
\* portfolio_beta > 1.3, portfolio_volatility > 30, holdings of weight
\* > 30 % named, holdings of beta > 1.5 named); "well controlled" appears
\* exactly when none holds and is then the only entry; the list is never
\* empty.
C18_RecommendationsMatchConditions ==
    Reported =>
        /\ report.recommendations # <<>>
        /\ \A i, j \in 1..Len(report.recommendations) :
              i < j => RuleRank(report.recommendations[i].rule)
                          < RuleRank(report.recommendations[j].rule)
        /\ IF report.diversification_score < 500
              THEN HasRule("concentrated", <<>>) ELSE LacksRule("concentrated")
        /\ IF report.portfolio_beta > 130
              THEN HasRule("high_beta", <<>>) ELSE LacksRule("high_beta")
        /\ IF report.portfolio_volatility > 3000
              THEN HasRule("high_volatility", <<>>)
              ELSE LacksRule("high_volatility")
        /\ IF Overweight # <<>>
              THEN HasRule("overweight", SymbolsOf(Overweight))
              ELSE LacksRule("overweight")
        /\ IF HighBeta # <<>>
              THEN HasRule("high_beta_stocks", SymbolsOf(HighBeta))
              ELSE LacksRule("high_beta_stocks")
        /\ IF NoWarningHolds
              THEN report.recommendations
                      = << [rule |-> "well_controlled", symbols |-> <<>>] >>
              ELSE LacksRule("well_controlled")

\* a report with several warnings, one of them naming holdings
C18_Witness ==
    /\ Reported
    /\ Len(report.recommendations) >= 3
    /\ Overweight # <<>>
    /\ HasRule("overweight", SymbolsOf(Overweight))

\* C24: when every holding has a positive value, "well controlled" can
\* appear only with at least 4 holdings: with 1 to 3 holdings some weight
\* exceeds 30 %, so the single-name concentration warning is present, and
\* with one holding the diversification warning is present as well.
C24_WellControlledNeedsFourHoldings ==
    (Reported /\ AllPositiveValues) =>
        /\ ~LacksRule("well_controlled") => Len(AnalysedStocks) >= 4
        /\ Len(AnalysedStocks) \in 1..3 =>
              /\ Overweight # <<>>
              /\ HasRule("overweight", SymbolsOf(Overweight))
        /\ Len(AnalysedStocks) = 1 => HasRule("concentrated", <<>>)

\* four holdings of positive value whose report is "well controlled"
C24_Witness ==
    /\ Reported
    /\ AllPositiveValues
    /\ Len(AnalysedStocks) = 4
    /\ HasRule("well_controlled", <<>>)

(***************************************************************************)
(* Price frames and exact statistics of their returns                      *)
(*                                                                         *)
(* A frame is its sequence of closes, oldest first.  A return is kept as   *)
(* the integer ReturnScale * r, so that sums, co-moments and their ratios  *)
(* are exact.                                                              *)
(***************************************************************************)
PriceSet == {1, 2}

RECURSIVE ProductOf(_)
ProductOf(S) ==
    IF S = {} THEN 1 ELSE LET x == CHOOSE y \in S : TRUE IN x * ProductOf(S \ {x})

\* every close divides it
ReturnScale == ProductOf(PriceSet)

Motifs == UNION {[1..k -> PriceSet] : k \in 1..MaxMotif}

\* n bars repeating the motif m
Series(m, n) == [i \in 1..n |-> m[((i - 1) % Len(m)) + 1]]

\* frame lengths: empty, a single bar, and those around the guards
FrameLens == {0, 1} \cup ((MinBars - 1)..MaxBars)

Frames == {Series(m, n) : m \in Motifs, n \in FrameLens}

\* a frame whose first bar stands apart from the motif that follows it
Headed(p, m, n) == <<p>> \o Series(m, n - 1)

\* the frames get_historical_data answers calculate_volatility with
VolatilityFrames ==
    Frames \cup {Headed(p, m, n) : p \in PriceSet, m \in Motifs,
                                  n \in FrameLens \ {0}}

\* df['Close'].pct_change().dropna(), each return times ReturnScale
PctChange(closes) ==
    [t \in 1..(Len(closes) - 1) |->
        ((closes[t + 1] - closes[t]) * ReturnScale) \div closes[t]]

\* series.iloc[-k:]: the last k elements, and the whole series when k = 0
ILocTail(x, k) == IF k = 0 THEN x ELSE SubSeq(x, Len(x) - k + 1, Len(x))

SumProd(x, y) == SumSeq([i \in 1..Len(x) |-> x[i] * y[i]])

\* n^2 times the population covariance of x and y (n = Len(x) = Len(y))
CoMoment(x, y) == Len(x) * SumProd(x, y) - SumSeq(x) * SumSeq(y)

\* a / b < c / d for a, c >= 0 and b, d > 0, by continued fractions: no
\* product is formed
RECURSIVE FracLess(_, _, _, _)
FracLess(a, b, c, d) ==
    LET qa == a \div b
        qc == c \div d
        ra == a - qa * b
        rc == c - qc * d
    IN  IF qa # qc THEN qa < qc
        ELSE IF rc = 0 THEN FALSE
        ELSE IF ra = 0 THEN TRUE
        ELSE FracLess(d, rc, b, ra)

FracLeq(a, b, c, d) == ~FracLess(c, d, a, b)

\* the largest j in lo..hi with P(j), for P downward closed and P(lo)
RECURSIVE LargestWith(_, _, _)
LargestWith(P(_), lo, hi) ==
    IF lo = hi THEN lo
    ELSE LET mid == (lo + hi + 1) \div 2
         IN  IF P(mid) THEN LargestWith(P, mid, hi)
             ELSE LargestWith(P, lo, mid - 1)

\* round(100 * sxy / sqrt(p)) for p > 0 and sxy^2 <= p: the number of
\* half-steps (2j - 1) / 200 that |sxy| / sqrt(p) reaches, signed
RoundCorrelation(sxy, p) ==
    LET reaches(j) == j = 0 \/ FracLeq((2 * j - 1) * (2 * j - 1), 40000, sxy * sxy, p)
        k == LargestWith(reaches, 0, 100)
    IN  IF sxy < 0 THEN -k ELSE k

(***************************************************************************)
(* RiskAnalysisService on frames (services/risk_service.py)                *)
(*                                                                         *)
(* The standard deviation, and the sharpe ratio that divides by it, need a *)
(* square root: the model computes whether the deviation is zero and the   *)
(* sign of the sharpe ratio, and draws the magnitudes from small sets.     *)
(***************************************************************************)
\* [daily, annual] volatility in hundredths of a percent
PositiveVols == {[daily |-> 95, annual |-> 1500], [daily |-> 220, annual |-> 3500]}

ZeroVol == [daily |-> 0, annual |-> 0]

\* returns.std(), returns.std() * np.sqrt(252)
VolMagnitudes(returns) ==
    IF CoMoment(returns, returns) = 0 THEN {ZeroVol} ELSE PositiveVols

RISK_FREE_RATE_PCT == 5

\* the sign of annual_return - RISK_FREE_RATE:
\* 252 * sum / (n * ReturnScale) - RISK_FREE_RATE_PCT / 100
ExcessReturnSign(returns) ==
    LET d == 25200 * SumSeq(returns) - RISK_FREE_RATE_PCT * Len(returns) * ReturnScale
    IN  IF d > 0 THEN 1 ELSE IF d < 0 THEN -1 ELSE 0

\* (annual_return - RISK_FREE_RATE) / annual_volatility
\*     if annual_volatility != 0 else 0, in hundredths
SharpeMagnitudes(returns, vol) ==
    IF vol.annual = 0 \/ ExcessReturnSign(returns) = 0 THEN {0}
    ELSE IF ExcessReturnSign(returns) > 0 THEN {50, 150, 250}
    ELSE {-50}

\* the running peak of the cumulative product at return t (1-based): the
\* largest close among bars 2 .. t + 1; the first bar has no return
RECURSIVE PeakClose(_, _)
PeakClose(closes, t) ==
    IF t = 1 THEN closes[2]
    ELSE LET p == PeakClose(closes, t - 1)
         IN  IF closes[t + 1] > p THEN closes[t + 1] ELSE p

\* round(drawdown.min() * 100, 2) in hundredths of a percent, for at least
\* one return
RECURSIVE MaxDrawdown(_, _)
MaxDrawdown(closes, t) ==
    LET p == PeakClose(closes, t)
        d == RoundDiv(10000 * (closes[t + 1] - p), p)
    IN  IF t = 1 THEN d ELSE Min(d, MaxDrawdown(closes, t - 1))

\* calculate_volatility on the frame df, given the deviation it computes
CalculateVolatility(closes, vol) ==
    IF InsufficientBars(Len(closes)) THEN [kind |-> "error"]
    ELSE LET returns == PctChange(closes)
         IN  [kind |-> "ok",
              daily_volatility |-> vol.daily,
              annual_volatility |-> vol.annual,
              max_drawdown |-> MaxDrawdown(closes, Len(returns)),
              avg_daily_return |->
                  RoundDiv(1000000 * SumSeq(returns), Len(returns) * ReturnScale),
              data_points |-> Len(returns)]

\* _interpret_beta on beta = num / den, den > 0
InterpretBeta(num, den) ==
    IF 2 * num > 3 * den THEN "high"
    ELSE IF num > den THEN "above_market"
    ELSE IF 5 * num > 4 * den THEN "market_like"
    ELSE IF 2 * num > den THEN "below_market"
    ELSE "defensive"

\* np.cov(stock_returns, market_returns)[0][1] / np.var(market_returns) as
\* the fraction [num, den]: the covariance divides by n - 1, the variance
\* by n
BetaFraction(sr, mr) ==
    [num |-> Len(mr) * CoMoment(sr, mr),
     den |-> (Len(mr) - 1) * CoMoment(mr, mr)]

\* calculate_beta on the frames stock_df and market_df
CalculateBeta(stock, market) ==
    LET guard == BetaGuard(Len(stock), Len(market))
    IN  IF guard # "ok" THEN [kind |-> guard]
        ELSE LET min_len == Min(Len(stock) - 1, Len(market) - 1)
                 sr == ILocTail(PctChange(stock), min_len)
                 mr == ILocTail(PctChange(market), min_len)
                 zeroVar == CoMoment(mr, mr) = 0
                 num == IF zeroVar THEN 0 ELSE BetaFraction(sr, mr).num
                 den == IF zeroVar THEN 1 ELSE BetaFraction(sr, mr).den
                 p == CoMoment(sr, sr) * CoMoment(mr, mr)
             IN  [kind |-> "ok",
                  beta |-> RoundDiv(100 * num, den),
                  correlation |->
                      IF p = 0 THEN [nan |-> TRUE, value |-> 0]
                      ELSE [nan |-> FALSE,
                            value |-> RoundCorrelation(CoMoment(sr, mr), p)],
                  interpretation |-> InterpretBeta(num, den)]

\* _interpret_sharpe
InterpretSharpe(sharpe) ==
    IF sharpe > 200 THEN "excellent"
    ELSE IF sharpe > 100 THEN "good"
    ELSE IF sharpe > 0 THEN "fair"
    ELSE "poor"

\* calculate_sharpe_ratio on the frame df, given the magnitudes it computes
CalculateSharpeRatio(closes, vol, sharpe) ==
    IF InsufficientBars(Len(closes)) THEN [kind |-> "error"]
    ELSE LET returns == PctChange(closes)
         IN  [kind |-> "ok",
              sharpe_ratio |-> sharpe,
              annual_return |->
                  RoundDiv(2520000 * SumSeq(returns), Len(returns) * ReturnScale),
              annual_volatility |-> vol.annual,
              interpretation |-> InterpretSharpe(sharpe)]

(***************************************************************************)
(* The specification of the per-symbol risk metrics: the API serves        *)
(* /api/risk/<symbol> one request at a time                                *)
(***************************************************************************)
InitMetrics == Idle

\* the deviation drawn for a frame; none for a frame the guard rejects
VolChoices(closes) ==
    IF InsufficientBars(Len(closes)) THEN {ZeroVol}
    ELSE VolMagnitudes(PctChange(closes))

SharpeChoices(closes, vol) ==
    IF InsufficientBars(Len(closes)) THEN {0}
    ELSE SharpeMagnitudes(PctChange(closes), vol)

CalculateVolatilityCall ==
    /\ mcall = NoCall
    /\ \E df \in VolatilityFrames : \E vol \in VolChoices(df) :
          mcall' = [op |-> "calculate_volatility", stock |-> df, market |-> <<>>,
                    res |-> CalculateVolatility(df, vol)]
    /\ UNCHANGED <<portfolioVars, indicatorVars, advisorVars>>

CalculateBetaCall ==
    /\ mcall = NoCall
    /\ \E stock_df \in Frames, market_df \in Frames :
          mcall' = [op |-> "calculate_beta", stock |-> stock_df,
                    market |-> market_df,
                    res |-> CalculateBeta(stock_df, market_df)]
    /\ UNCHANGED <<portfolioVars, indicatorVars, advisorVars>>

CalculateSharpeRatioCall ==
    /\ mcall = NoCall
    /\ \E df \in Frames : \E vol \in VolChoices(df) :
          \E sharpe \in SharpeChoices(df, vol) :
            mcall' = [op |-> "calculate_sharpe_ratio", stock |-> df,
                      market |-> <<>>,
                      res |-> CalculateSharpeRatio(df, vol, sharpe)]
    /\ UNCHANGED <<portfolioVars, indicatorVars, advisorVars>>

\* the result is returned to the caller
MetricsReturn ==
    /\ mcall # NoCall
    /\ mcall' = NoCall
    /\ UNCHANGED <<portfolioVars, indicatorVars, advisorVars>>

NextMetrics ==
    CalculateVolatilityCall \/ CalculateBetaCall \/ CalculateSharpeRatioCall
        \/ MetricsReturn

SpecMetrics == InitMetrics /\ [][NextMetrics]_vars

(***************************************************************************)
(* Claims about the per-symbol risk metrics (checked under SpecMetrics)    *)
(***************************************************************************)
\* the return observations of the frame the last call was given
CallReturns == PctChange(mcall.stock)

\* C5: calculate_volatility and calculate_sharpe_ratio return the
\* insufficient-data error whenever the frame yields fewer than 20 returns
\* (fewer than 21 bars) and compute only on at least 20 returns, so that
\* data_points, when reported, is at least 20.
C5_MetricsNeedTwentyReturns ==
    mcall.op \in {"calculate_volatility", "calculate_sharpe_ratio"} =>
        /\ Len(CallReturns) < 20 => mcall.res.kind = "error"
        /\ mcall.res.kind = "ok" => Len(CallReturns) >= 20
        /\ (mcall.op = "calculate_volatility" /\ mcall.res.kind = "ok")
              => mcall.res.data_points >= 20

\* the aligned return series of the last calculate_beta call
CallStockReturns ==
    ILocTail(PctChange(mcall.stock),
             Min(Len(mcall.stock) - 1, Len(mcall.market) - 1))

CallMarketReturns ==
    ILocTail(PctChange(mcall.market),
             Min(Len(mcall.stock) - 1, Len(mcall.market) - 1))

\* C6: when the stock and market return series are identical, of any length
\* >= 20 and of non-zero variance, calculate_beta reports beta = 1.0 and
\* correlation = 1.0.
C6_BetaOfItselfIsOne ==
    (/\ mcall.op = "calculate_beta"
     /\ mcall.res.kind = "ok"
     /\ CallStockReturns = CallMarketReturns
     /\ Len(CallMarketReturns) >= 20
     /\ CoMoment(CallMarketReturns, CallMarketReturns) # 0)
        => /\ mcall.res.beta = 100
           /\ mcall.res.correlation = [nan |-> FALSE, value |-> 100]

\* C21: calculate_beta never raises: on non-empty stock and market frames
\* it returns a beta record or an error record, the error record whenever
\* either frame yields fewer than 20 returns (a market frame of one bar
\* included), and the aligned return series have the same length.
C21_BetaNeverRaises ==
    (mcall.op = "calculate_beta" /\ mcall.stock # <<>> /\ mcall.market # <<>>)
        => /\ mcall.res.kind \in {"ok", "error"}
           /\ (Len(PctChange(mcall.stock)) < 20
                   \/ Len(PctChange(mcall.market)) < 20)
                 => mcall.res.kind = "error"
           /\ Len(CallStockReturns) = Len(CallMarketReturns)

\* the decline from bar s to bar t, as round(. * 100, 2) in hundredths of a
\* percent
Decline(closes, s, t) == RoundDiv(10000 * (closes[t] - closes[s]), closes[s])

\* the worst peak-to-trough decline over all bar pairs s <= t, the first
\* bar included
WorstDecline(closes) ==
    LET declines == {Decline(closes, pair[1], pair[2]) :
                        pair \in {q \in (1..Len(closes)) \X (1..Len(closes)) :
                                      q[1] <= q[2]}}
    IN  CHOOSE d \in declines : \A e \in declines : d <= e

NeverFalls(closes) ==
    \A s, t \in 1..Len(closes) : s <= t => closes[t] >= closes[s]

\* C20: max_drawdown of calculate_volatility is the worst peak-to-trough
\* decline of the closes, min over bar pairs s <= t of
\* (close_t - close_s) / close_s with the first bar a candidate peak; it is
\* never positive and is 0 only when no close falls below an earlier one.
C20_MaxDrawdownIsWorstDecline ==
    (mcall.op = "calculate_volatility" /\ mcall.res.kind = "ok") =>
        /\ mcall.res.max_drawdown = WorstDecline(mcall.stock)
        /\ mcall.res.max_drawdown <= 0
        /\ mcall.res.max_drawdown = 0 <=> NeverFalls(mcall.stock)

(***************************************************************************)
(* AnalysisService (services/analysis_service.py)                          *)
(*                                                                         *)
(* A close of a summary frame is an integer number of thousandths of the   *)
(* currency unit, so that rounding to two decimals has something to round. *)
(* A number the service computes is one of                                 *)
(*   NaN               IEEE not-a-number (every comparison with it fails); *)
(*   Ratio(num, den)   the rational num / den, den > 0;                    *)
(*   a band            mean + side * width * std of a window of closes,    *)
(*                     kept as the window's sums (std needs a square root) *)
(* and is compared exactly.  The MACD lines are exponential averages over  *)
(* the whole frame: their latest values are drawn from a small set, in     *)
(* units of 10^-5.                                                         *)
(***************************************************************************)
RSI_PERIOD == 14

MA_SHORT == 20

MA_LONG == 60

\* calculate_bollinger_bands(df, period = 20, std_dev = 2)
BB_PERIOD == 20

BB_STD_DEV == 2

NaN == [kind |-> "nan"]

Ratio(num, den) == [kind |-> "ratio", num |-> num, den |-> den]

Lit(n) == Ratio(n, 1)

SetMin(S) == CHOOSE x \in S : \A y \in S : x <= y

SetMax(S) == CHOOSE x \in S : \A y \in S : y <= x

\* mean + side * width * std (ddof = 1) of the window w of closes; low and
\* high enclose the value (the deviation is below the window's range)
BandOf(w, side, width) ==
    LET S == SumSeq(w)
        lo == SetMin({w[j] : j \in 1..Len(w)})
        hi == SetMax({w[j] : j \in 1..Len(w)})
    IN  [kind |-> "band", side |-> side, width |-> width, window |-> Len(w),
         sum |-> S, dev |-> Len(w) * SumProd(w, w) - S * S,
         low |-> lo - width * (hi - lo), high |-> hi + width * (hi - lo)]

\* band >= r, for a band b and a ratio r:
\*   sum/p + side * width * sqrt(dev / (p (p - 1))) >= num/den
BandGeq(b, r) ==
    LET p == b.window
        q == r.num * p - b.sum * r.den
        lhs == b.width * b.width * b.dev * p * r.den * r.den
        rhs == (p - 1) * q * q
    IN  IF b.side = 1 THEN q <= 0 \/ lhs >= rhs
        ELSE q <= 0 /\ lhs <= rhs

\* band > r
BandGt(b, r) ==
    LET p == b.window
        q == r.num * p - b.sum * r.den
        lhs == b.width * b.width * b.dev * p * r.den * r.den
        rhs == (p - 1) * q * q
    IN  IF b.side = 1 THEN q < 0 \/ lhs > rhs
        ELSE q < 0 /\ lhs < rhs

\* x < y in IEEE arithmetic: false when either side is NaN
Less(x, y) ==
    CASE x.kind = "nan" \/ y.kind = "nan" -> FALSE
      [] x.kind = "ratio" /\ y.kind = "ratio" -> x.num * y.den < y.num * x.den
      [] x.kind = "ratio" /\ y.kind = "band" -> BandGt(y, x)
      [] x.kind = "band" /\ y.kind = "ratio" -> ~BandGeq(x, y)

Greater(x, y) == Less(y, x)

Equal(x, y) ==
    x.kind = "ratio" /\ y.kind = "ratio" /\ x.num * y.den = y.num * x.den

\* round(x, k) for unit = 10^-k in the units of x: the nearest multiple of
\* unit.num / unit.den, ties to the even multiple; round(NaN) is NaN
RoundTo(x, unit) ==
    CASE x.kind = "nan" -> NaN
      [] x.kind = "ratio" ->
            Ratio(unit.num * RoundDiv(x.num * unit.den, x.den * unit.num),
                  unit.den)
      [] x.kind = "band" ->
            LET u == unit.num
                reaches(j) == BandGeq(x, Ratio(2 * j * u - u, 2))
                exceeds(j) == BandGt(x, Ratio(2 * j * u - u, 2))
                k == LargestWith(reaches, FloorDiv(x.low, u) - 1,
                                 FloorDiv(x.high, u) + 1)
            IN  Lit(u * (IF ~exceeds(k) /\ k % 2 # 0 THEN k - 1 ELSE k))

\* df['Close'].diff() at bar i; delta.where(delta > 0, 0) keeps the gains
\* and puts 0 everywhere else, the first bar's missing delta included
GainAt(closes, i) ==
    IF i > 1 /\ closes[i] > closes[i - 1] THEN closes[i] - closes[i - 1] ELSE 0

\* -delta.where(delta < 0, 0)
LossAt(closes, i) ==
    IF i > 1 /\ closes[i] < closes[i - 1] THEN closes[i - 1] - closes[i] ELSE 0

\* an RSI that is undefined whenever loss is 0
RsiOfUndefinedOnZeroLoss(gain, loss) ==
    IF loss = 0 THEN NaN ELSE Ratio(100 * gain, gain + loss)

\* 100 - 100 / (1 + gain / loss): 0 / 0 is NaN, gain / 0 is inf
RsiOf(gain, loss) ==
    IF loss = 0 THEN (IF gain = 0 THEN NaN ELSE Lit(100))
    ELSE Ratio(100 * gain, gain + loss)

\* calculate_rsi: period None (0 here) selects Config.RSI_PERIOD; the
\* rolling mean over `period` bars is missing on the first period - 1 bars
CalculateRsi(closes, period) ==
    LET p == IF period = 0 THEN RSI_PERIOD ELSE period
    IN  [i \in 1..Len(closes) |->
            IF i < p THEN NaN
            ELSE RsiOf(SumSeq([j \in 1..p |-> GainAt(closes, i - p + j)]),
                       SumSeq([j \in 1..p |-> LossAt(closes, i - p + j)]))]

\* a rolling mean that is still missing at bar `window`
RollingMeanOneBarLate(closes, window) ==
    [i \in 1..Len(closes) |->
        IF i <= window THEN [kind |-> "nan"]
        ELSE [kind |-> "ratio", num |-> SumSeq(SubSeq(closes, i - window + 1, i)),
              den |-> window]]

\* df['Close'].rolling(window).mean()
RollingMean(closes, window) ==
    [i \in 1..Len(closes) |->
        IF i < window THEN NaN
        ELSE Ratio(SumSeq(SubSeq(closes, i - window + 1, i)), window)]

\* the moving averages with the short and the long window exchanged
CalculateMovingAveragesExchanged(closes) ==
    [MA20 |-> RollingMean(closes, MA_LONG), MA60 |-> RollingMean(closes, MA_SHORT),
     MA5 |-> RollingMean(closes, 5), MA10 |-> RollingMean(closes, 10)]

\* calculate_moving_averages
CalculateMovingAverages(closes) ==
    [MA20 |-> RollingMean(closes, MA_SHORT), MA60 |-> RollingMean(closes, MA_LONG),
     MA5 |-> RollingMean(closes, 5), MA10 |-> RollingMean(closes, 10)]

\* middle + side * std_dev * rolling(period).std()
RollingBand(closes, period, std_dev, side) ==
    [i \in 1..Len(closes) |->
        IF i < period THEN NaN
        ELSE BandOf(SubSeq(closes, i - period + 1, i), side, std_dev)]

\* calculate_bollinger_bands
CalculateBollingerBands(closes) ==
    [upper |-> RollingBand(closes, BB_PERIOD, BB_STD_DEV, 1),
     middle |-> RollingMean(closes, BB_PERIOD),
     lower |-> RollingBand(closes, BB_PERIOD, BB_STD_DEV, -1)]

\* the latest values of the MACD line and of the signal line, in 10^-5
MacdSet == {-100, -4, 0, 4, 100}

SignalSet == {0, 100}

\* calculate_macd at the last bar: the two lines and their difference
CalculateMacd(macd, signal) ==
    [macd_line |-> Lit(macd), signal_line |-> Lit(signal),
     histogram |-> Lit(macd - signal)]

\* round(x, 2) of a price in thousandths; round(x, 2) of an RSI value;
\* round(x, 4) of a MACD value in 10^-5
PriceUnit == Ratio(10, 1)

RsiUnit == Ratio(1, 100)

MacdUnit == Ratio(10, 1)

\* get_technical_summary up to its return statement: the latest values and
\* the three classifications made on them
LatestValues(closes, macd, signal) ==
    LET n == Len(closes)
        rsi == CalculateRsi(closes, 0)
        m == CalculateMacd(macd, signal)
        mas == CalculateMovingAverages(closes)
        bb == CalculateBollingerBands(closes)
        latest_close == Lit(closes[n])
        latest_rsi == rsi[n]
        ma_short == mas.MA20[n]
        ma_long == mas.MA60[n]
    IN  [close |-> latest_close,
         rsi |-> latest_rsi,
         rsi_status |-> IF Greater(latest_rsi, Lit(70)) THEN "overbought"
                        ELSE IF Less(latest_rsi, Lit(30)) THEN "oversold"
                        ELSE "neutral",
         macd |-> m.macd_line,
         macd_signal |-> m.signal_line,
         macd_histogram |-> m.histogram,
         macd_status |-> IF Greater(m.macd_line, m.signal_line) THEN "bullish"
                         ELSE "bearish",
         ma_short |-> ma_short,
         ma_long |-> ma_long,
         trend |-> IF Greater(ma_short, ma_long) /\ Greater(latest_close, ma_short)
                       THEN "bullish"
                   ELSE IF Less(ma_short, ma_long) /\ Less(latest_close, ma_short)
                       THEN "bearish"
                   ELSE "neutral",
         bb_upper |-> bb.upper[n],
         bb_middle |-> bb.middle[n],
         bb_lower |-> bb.lower[n]]

\* the return statement of get_technical_summary: the numbers are rounded,
\* the classifications are kept
RoundedSnapshot(v) ==
    [close |-> RoundTo(v.close, PriceUnit),
     rsi |-> RoundTo(v.rsi, RsiUnit),
     rsi_status |-> v.rsi_status,
     macd |-> RoundTo(v.macd, MacdUnit),
     macd_signal |-> RoundTo(v.macd_signal, MacdUnit),
     macd_histogram |-> RoundTo(v.macd_histogram, MacdUnit),
     macd_status |-> v.macd_status,
     ma_short |-> RoundTo(v.ma_short, PriceUnit),
     ma_long |-> RoundTo(v.ma_long, PriceUnit),
     trend |-> v.trend,
     bb_upper |-> RoundTo(v.bb_upper, PriceUnit),
     bb_middle |-> RoundTo(v.bb_middle, PriceUnit),
     bb_lower |-> RoundTo(v.bb_lower, PriceUnit)]

\* the summary without its guard on the number of bars
GetTechnicalSummaryOfAnyFrame(closes, macd, signal) ==
    IF Len(closes) = 0
    THEN [error |-> "insufficient_data"]
    ELSE RoundedSnapshot(LatestValues(closes, macd, signal))

GetTechnicalSummary(closes, macd, signal) ==
    IF Len(closes) = 0 \/ Len(closes) < MA_LONG
    THEN [error |-> "insufficient_data"]
    ELSE RoundedSnapshot(LatestValues(closes, macd, signal))

(***************************************************************************)
(* Frames of the technical summary                                         *)
(***************************************************************************)
\* a close of 1.000
BaseClose == 1000

LeadCloses == {990, 1000, 1010}

TailCloses == {990, 1000, 1004, 1010}

Tails == TailCloses \X TailCloses \X TailCloses

\* n bars: the lead level up to the last MA_SHORT bars, then the base
\* level, then the tail
SummaryFrame(lead, tail, n) ==
    [i \in 1..n |->
        IF i <= n - MA_SHORT THEN lead
        ELSE IF i <= n - Len(tail) THEN BaseClose
        ELSE tail[i - (n - Len(tail))]]

\* n bars rising (or falling) by `step` a bar
Ramp(step, n) == [i \in 1..n |-> BaseClose + step * (i - 1)]

\* frame lengths: one below the guard of the summary, and those from it on
SummaryLens == (MA_LONG - 1)..MaxSummaryBars

\* n bars rising by the increments of the motif m, repeated
RECURSIVE Climb(_, _)
Climb(m, n) ==
    IF n = 0 THEN <<>>
    ELSE IF n = 1 THEN <<BaseClose>>
    ELSE LET c == Climb(m, n - 1)
         IN  Append(c, c[n - 1] + m[((n - 2) % Len(m)) + 1])

SummaryFrames ==
    {<<>>}
        \cup {SummaryFrame(lead, tail, n) :
                 lead \in LeadCloses, tail \in Tails, n \in SummaryLens}
        \cup {Ramp(step, n) : step \in {-1, 1}, n \in SummaryLens}
        \cup {Climb(m, n) : m \in {<<1, 2>>, <<2, 1>>, <<2, 2>>}, n \in SummaryLens}

\* the MACD values drawn for a frame; none for a frame the guard rejects
MacdChoices(closes) ==
    IF Len(closes) < MA_LONG THEN {<<0, 0>>} ELSE MacdSet \X SignalSet

(***************************************************************************)
(* The indicator calls                                                     *)
(***************************************************************************)
InitIndicators == Idle

\* the frames the rolling indicators are called on: the short frames, and
\* frames around MA_LONG bars
IndicatorFrames ==
    Frames
        \cup {SummaryFrame(lead, <<990, 1000, 1010>>, n) :
                 lead \in LeadCloses, n \in SummaryLens}
        \cup {Ramp(step, n) : step \in {-1, 1}, n \in FrameLens \cup SummaryLens}

\* period: None (0), or given
PeriodSet == {0, 2, 3}

CalculateRsiCall ==
    /\ icall = NoCall
    /\ \E df \in IndicatorFrames, period \in PeriodSet :
          icall' = [op |-> "calculate_rsi", closes |-> df, period |-> period,
                    macd |-> 0, signal |-> 0,
                    res |-> CalculateRsi(df, period)]
    /\ UNCHANGED <<portfolioVars, metricsVars, advisorVars>>

GetTechnicalSummaryCall ==
    /\ icall = NoCall
    /\ \E df \in SummaryFrames : \E m \in MacdChoices(df) :
          icall' = [op |-> "get_technical_summary", closes |-> df, period |-> 0,
                    macd |-> m[1], signal |-> m[2],
                    res |-> GetTechnicalSummary(df, m[1], m[2])]
    /\ UNCHANGED <<portfolioVars, metricsVars, advisorVars>>

CalculateMovingAveragesCall ==
    /\ icall = NoCall
    /\ \E df \in IndicatorFrames :
          icall' = [op |-> "calculate_moving_averages", closes |-> df,
                    period |-> 0, macd |-> 0, signal |-> 0,
                    res |-> CalculateMovingAverages(df)]
    /\ UNCHANGED <<portfolioVars, metricsVars, advisorVars>>

CalculateBollingerBandsCall ==
    /\ icall = NoCall
    /\ \E df \in IndicatorFrames :
          icall' = [op |-> "calculate_bollinger_bands", closes |-> df,
                    period |-> 0, macd |-> 0, signal |-> 0,
                    res |-> CalculateBollingerBands(df)]
    /\ UNCHANGED <<portfolioVars, metricsVars, advisorVars>>

\* the result is returned to the caller
IndicatorsReturn ==
    /\ icall # NoCall
    /\ icall' = NoCall
    /\ UNCHANGED <<portfolioVars, metricsVars, advisorVars>>

NextIndicators ==
    CalculateRsiCall \/ CalculateMovingAveragesCall
        \/ CalculateBollingerBandsCall \/ GetTechnicalSummaryCall
        \/ IndicatorsReturn

SpecIndicators == InitIndicators /\ [][NextIndicators]_vars

(***************************************************************************)
(* Claims about the indicators (checked under SpecIndicators)              *)
(***************************************************************************)
IsFlat(closes) == \A i \in 1..Len(closes) : closes[i] = closes[1]

\* the period calculate_rsi used in the last call
CallPeriod == IF icall.period = 0 THEN RSI_PERIOD ELSE icall.period

\* C3: for a flat price series of at least period + 1 bars calculate_rsi
\* reports 50 at every bar whose window is filled, and
\* get_technical_summary reports rsi = 50: never NaN, never an error.
C3_FlatSeriesRsiIsFifty ==
    /\ (/\ icall.op = "calculate_rsi"
        /\ IsFlat(icall.closes)
        /\ Len(icall.closes) >= CallPeriod + 1)
          => \A i \in (CallPeriod + 1)..Len(icall.closes) :
                Equal(icall.res[i], Lit(50))
    /\ (/\ icall.op = "get_technical_summary"
        /\ IsFlat(icall.closes)
        /\ Len(icall.closes) >= MA_LONG)
          => /\ "error" \notin DOMAIN icall.res
             /\ Equal(icall.res.rsi, Lit(50))

\* a number, not NaN
Defined(x) == x.kind # "nan"

StrictlyIncreasing(closes) ==
    \A i \in 2..Len(closes) : closes[i - 1] < closes[i]

\* C15: for strictly increasing closes of at least period + 1 bars
\* calculate_rsi reports exactly 100 (not NaN, nothing above 100) at every
\* bar whose window is filled.
C15_AllGainsRsiIsHundred ==
    (/\ icall.op = "calculate_rsi"
     /\ StrictlyIncreasing(icall.closes)
     /\ Len(icall.closes) >= CallPeriod + 1)
        => \A i \in (CallPeriod + 1)..Len(icall.closes) :
              Equal(icall.res[i], Lit(100))

\* an all-gains frame with a filled window at its last bar
C15_Witness ==
    /\ icall.op = "calculate_rsi"
    /\ StrictlyIncreasing(icall.closes)
    /\ Len(icall.closes) >= CallPeriod + 1
    /\ Equal(icall.res[Len(icall.closes)], Lit(100))

\* the series is missing on its first k bars
MissingUpTo(series, k) ==
    \A i \in 1..Len(series) : i <= k => ~Defined(series[i])

\* C14: a rolling value is missing unless every input of its trailing
\* window is present, a missing input never counting as zero: RSI, whose
\* inputs are the deltas (the first bar has none), is missing on the first
\* `period` bars, and the moving averages and the Bollinger values on the
\* first window - 1 bars.
C14_RollingValuesNeedFullWindow ==
    /\ icall.op = "calculate_rsi" => MissingUpTo(icall.res, CallPeriod)
    /\ icall.op = "calculate_moving_averages" =>
          /\ MissingUpTo(icall.res.MA5, 5 - 1)
          /\ MissingUpTo(icall.res.MA10, 10 - 1)
          /\ MissingUpTo(icall.res.MA20, MA_SHORT - 1)
          /\ MissingUpTo(icall.res.MA60, MA_LONG - 1)
    /\ icall.op = "calculate_bollinger_bands" =>
          /\ MissingUpTo(icall.res.upper, BB_PERIOD - 1)
          /\ MissingUpTo(icall.res.middle, BB_PERIOD - 1)
          /\ MissingUpTo(icall.res.lower, BB_PERIOD - 1)

\* C13: get_technical_summary returns the insufficient-data error exactly
\* when the series has fewer than MA_LONG bars; from MA_LONG bars on
\* (exactly MA_LONG included) it returns a snapshot whose ma_short, ma_long,
\* bb_upper, bb_middle and bb_lower are all defined.
C13_SummaryDefinedFromMaLongBars ==
    icall.op = "get_technical_summary" =>
        /\ "error" \in DOMAIN icall.res <=> Len(icall.closes) < MA_LONG
        /\ Len(icall.closes) >= MA_LONG =>
              /\ "error" \notin DOMAIN icall.res
              /\ Defined(icall.res.ma_short)
              /\ Defined(icall.res.ma_long)
              /\ Defined(icall.res.bb_upper)
              /\ Defined(icall.res.bb_middle)
              /\ Defined(icall.res.bb_lower)

\* a summary of exactly MA_LONG bars
C13_Witness ==
    /\ icall.op = "get_technical_summary"
    /\ Len(icall.closes) = MA_LONG
    /\ "error" \notin DOMAIN icall.res
    /\ Defined(icall.res.ma_long)

\* C17: for strictly increasing closes of at least MA_LONG + 1 bars
\* get_technical_summary reports trend = "bullish".
C17_RisingSeriesIsBullish ==
    (/\ icall.op = "get_technical_summary"
     /\ StrictlyIncreasing(icall.closes)
     /\ Len(icall.closes) >= MA_LONG + 1)
        => /\ "error" \notin DOMAIN icall.res
           /\ icall.res.trend = "bullish"

\* a summary of a rising frame of MA_LONG + 1 bars or more
C17_Witness ==
    /\ icall.op = "get_technical_summary"
    /\ StrictlyIncreasing(icall.closes)
    /\ Len(icall.closes) >= MA_LONG + 1
    /\ "error" \notin DOMAIN icall.res
    /\ icall.res.trend = "bullish"

(***************************************************************************)
(* AIAdvisor (services/ai_advisor.py)                                      *)
(*                                                                         *)
(* A signal is an integer number of tenths, a weight of hundredths, and    *)
(* the weighted total of thousandths.  The result keeps the fields the     *)
(* advisor computes; name, current_price, currency, the translated         *)
(* recommendation and the disclaimer are copied text and are left out.     *)
(***************************************************************************)
\* weights with those of macd and price_position exchanged
WeightsFavouringPricePosition ==
    [trend |-> 30, rsi |-> 25, macd |-> 20, price_position |-> 25]

RECOMMENDATION_WEIGHTS ==
    [trend |-> 30, rsi |-> 25, macd |-> 25, price_position |-> 20]

\* scores['trend']
TrendScore(analysis) ==
    IF analysis.trend = "bullish" THEN 10
    ELSE IF analysis.trend = "bearish" THEN -10
    ELSE 0

\* scores['rsi']
RsiScore(analysis) ==
    LET rsi == analysis.rsi
    IN  IF Less(rsi, Lit(30)) THEN 10
        ELSE IF Greater(rsi, Lit(70)) THEN -10
        ELSE IF Less(rsi, Lit(40)) THEN 5
        ELSE IF Greater(rsi, Lit(60)) THEN -5
        ELSE 0

\* scores['macd']
MacdScore(analysis) ==
    IF analysis.macd_status = "bullish"
    THEN (IF Greater(analysis.macd_histogram, Lit(0)) THEN 8 ELSE 4)
    ELSE (IF Less(analysis.macd_histogram, Lit(0)) THEN -8 ELSE -4)

\* scores['price_position']
PricePositionScore(analysis) ==
    IF Less(analysis.close, analysis.bb_lower) THEN 10
    ELSE IF Greater(analysis.close, analysis.bb_upper) THEN -10
    ELSE IF Less(analysis.close, analysis.bb_middle) THEN 3
    ELSE -3

Scores(analysis) ==
    [trend |-> TrendScore(analysis), rsi |-> RsiScore(analysis),
     macd |-> MacdScore(analysis),
     price_position |-> PricePositionScore(analysis)]

\* sum(scores[key] * RECOMMENDATION_WEIGHTS[key] for key in scores)
TotalScore(scores) ==
    scores.trend * RECOMMENDATION_WEIGHTS.trend
        + scores.rsi * RECOMMENDATION_WEIGHTS.rsi
        + scores.macd * RECOMMENDATION_WEIGHTS.macd
        + scores.price_position * RECOMMENDATION_WEIGHTS.price_position

\* the decision with BUY from 0.6 on only
DecisionBuyFromSixTenths(total_score) ==
    IF total_score >= 600 THEN "BUY"
    ELSE IF total_score <= -500 THEN "SELL"
    ELSE "HOLD"

Decision(total_score) ==
    IF total_score >= 500 THEN "BUY"
    ELSE IF total_score <= -500 THEN "SELL"
    ELSE "HOLD"

\* the confidence when a HOLD reports |total_score| * 100 as well
ConfidenceOfMagnitude(total_score) == Min(Abs(total_score), 1000)

\* confidence in tenths of a percent: round(confidence, 1)
Confidence(total_score) ==
    IF Decision(total_score) = "HOLD" THEN 1000 - Abs(total_score)
    ELSE Min(Abs(total_score), 1000)

\* round(total_score, 2) in hundredths.  The total is a binary float: a
\* total of x.xx5 lies next to the tie, not on it, and rounds either way
ScoreRoundings(total_score) ==
    IF total_score % 10 = 5
    THEN {FloorDiv(total_score, 10), FloorDiv(total_score, 10) + 1}
    ELSE {RoundDiv(total_score, 10)}

Reasons(analysis) ==
    (IF analysis.trend = "bullish" THEN <<"bullish_alignment">>
     ELSE IF analysis.trend = "bearish" THEN <<"bearish_alignment">>
     ELSE <<>>)
    \o (IF analysis.rsi_status = "oversold" THEN <<"rsi_oversold">>
        ELSE IF analysis.rsi_status = "overbought" THEN <<"rsi_overbought">>
        ELSE <<>>)
    \o (IF analysis.macd_status = "bullish" THEN <<"macd_golden_cross">>
        ELSE <<"macd_death_cross">>)

\* the results get_recommendation may return, given the provider's answers
GetRecommendation(symbol, info, closes, macd, signal) ==
    IF info.kind = "error"
    THEN {[symbol |-> symbol, error |-> "info_error"]}
    ELSE IF Len(closes) = 0
    THEN {[symbol |-> symbol, error |-> "no_history"]}
    ELSE LET analysis == GetTechnicalSummary(closes, macd, signal)
         IN  IF "error" \in DOMAIN analysis
             THEN {[symbol |-> symbol, error |-> analysis.error]}
             ELSE LET total_score == TotalScore(Scores(analysis))
                  IN  {[symbol |-> symbol,
                        recommendation |-> Decision(total_score),
                        confidence |-> Confidence(total_score),
                        score |-> score,
                        technical_analysis |-> analysis,
                        reasons |-> Reasons(analysis)] :
                            score \in ScoreRoundings(total_score)}

\* the results of the symbols that did not fail, in input order
RECURSIVE GetPortfolioRecommendationsSkippingErrors(_, _)
GetPortfolioRecommendationsSkippingErrors(symbols, answers) ==
    IF symbols = <<>> THEN {<<>>}
    ELSE LET a == Head(answers)
         IN  {(IF "error" \in DOMAIN r THEN <<>> ELSE <<r>>) \o rest :
                 r \in GetRecommendation(Head(symbols), a.info, a.closes,
                                         a.macd, a.signal),
                 rest \in GetPortfolioRecommendationsSkippingErrors(
                             Tail(symbols), Tail(answers))}

\* get_portfolio_recommendations: the lists it may return, given the
\* provider's answers to each symbol's call
RECURSIVE GetPortfolioRecommendations(_, _)
GetPortfolioRecommendations(symbols, answers) ==
    IF symbols = <<>> THEN {<<>>}
    ELSE LET a == Head(answers)
         IN  {<<r>> \o rest :
                 r \in GetRecommendation(Head(symbols), a.info, a.closes,
                                         a.macd, a.signal),
                 rest \in GetPortfolioRecommendations(Tail(symbols),
                                                      Tail(answers))}

(***************************************************************************)
(* The advisor calls                                                       *)
(***************************************************************************)
InitAdvisor == Idle

\* the provider's answers to one get_recommendation call: no history is
\* fetched after a failed info lookup
AdvisorAnswers ==
    {a \in [info : InfoAnswers, closes : SummaryFrames, macd : MacdSet,
            signal : SignalSet] :
        /\ a.info.kind = "error" => a.closes = <<>>
        /\ <<a.macd, a.signal>> \in MacdChoices(a.closes)}

\* GET /api/analysis/<symbol>
GetRecommendationCall ==
    /\ acall = NoCall
    /\ \E symbol \in Symbols, a \in AdvisorAnswers :
          \E res \in GetRecommendation(symbol, a.info, a.closes, a.macd, a.signal) :
            acall' = [op |-> "get_recommendation", symbol |-> symbol,
                      info |-> a.info, closes |-> a.closes, macd |-> a.macd,
                      signal |-> a.signal, res |-> res]
    /\ UNCHANGED <<portfolioVars, metricsVars, indicatorVars>>

\* the response is sent: jsonify(recommendation)
AdvisorReturn ==
    /\ acall # NoCall
    /\ acall' = NoCall
    /\ UNCHANGED <<portfolioVars, metricsVars, indicatorVars>>

\* the frames of a batch: empty, one bar short, and two that are analysed
BatchFrames ==
    {<<>>,
     SummaryFrame(BaseClose, <<BaseClose, BaseClose, BaseClose>>, MA_LONG - 1),
     SummaryFrame(990, <<1000, 1000, 990>>, MA_LONG),
     Ramp(1, MA_LONG)}

\* the provider's answers to one symbol of a batch
BatchAnswers ==
    {a \in [info : {InfoError, InfoPrice(2)}, closes : BatchFrames,
            macd : {-100, 0, 100}, signal : {0}] :
        /\ a.info.kind = "error" => a.closes = <<>>
        /\ <<a.macd, a.signal>> \in MacdChoices(a.closes)}

SymbolLists == UNION {[1..n -> Symbols] : n \in 0..MaxSymbolList}

\* SchedulerService.generate_investment_recommendations: the advisor is
\* given the list of tracked symbols
GetPortfolioRecommendationsCall ==
    /\ acall = NoCall
    /\ \E symbols \in SymbolLists :
          \E answers \in [1..Len(symbols) -> BatchAnswers] :
            \E res \in GetPortfolioRecommendations(symbols, answers) :
              acall' = [op |-> "get_portfolio_recommendations",
                        symbols |-> symbols, answers |-> answers, res |-> res]
    /\ UNCHANGED <<portfolioVars, metricsVars, indicatorVars>>

NextAdvisor ==
    GetRecommendationCall \/ GetPortfolioRecommendationsCall \/ AdvisorReturn

SpecAdvisor == InitAdvisor /\ [][NextAdvisor]_vars

(***************************************************************************)
(* Claims about the advisor (checked under SpecAdvisor)                    *)
(***************************************************************************)
\* the last call returned a recommendation, not an error record
Recommended ==
    acall.op = "get_recommendation" /\ "error" \notin DOMAIN acall.res

\* the indicator values of the last call before they are rounded
CallLatestValues == LatestValues(acall.closes, acall.macd, acall.signal)

\* C4: the rsi, macd and price_position signals, and the decision derived
\* from them, are the same whether computed from the rounded snapshot
\* fields or from the unrounded indicator values.
C4_RoundingKeepsSignals ==
    Recommended =>
        /\ Scores(acall.res.technical_analysis) = Scores(CallLatestValues)
        /\ acall.res.recommendation
              = Decision(TotalScore(Scores(CallLatestValues)))

\* C7: in every non-error result the recommendation is BUY exactly when
\* the result's score is >= 0.5, SELL exactly when it is <= -0.5, and HOLD
\* otherwise.
C7_RecommendationMatchesScore ==
    Recommended =>
        /\ acall.res.recommendation = "BUY" <=> acall.res.score >= 50
        /\ acall.res.recommendation = "SELL" <=> acall.res.score <= -50
        /\ acall.res.recommendation = "HOLD"
              <=> (-50 < acall.res.score /\ acall.res.score < 50)

\* a BUY and its score
C7_Witness ==
    /\ Recommended
    /\ acall.res.recommendation = "BUY"
    /\ acall.res.score >= 50

\* the upstream data of the last call was missing or insufficient
UpstreamFailed ==
    \/ acall.info.kind = "error"
    \/ Len(acall.closes) < MA_LONG

\* C11: when the stock info lookup fails, the history is empty or the
\* history is shorter than MA_LONG bars, get_recommendation returns a
\* result with exactly the keys symbol and error: no recommendation,
\* confidence, score, reasons or technical_analysis.
C11_UpstreamFailureGivesSymbolAndError ==
    (acall.op = "get_recommendation" /\ UpstreamFailed) =>
        /\ DOMAIN acall.res = {"symbol", "error"}
        /\ acall.res.symbol = acall.symbol

\* a history one bar short of MA_LONG, answered with an error record
C11_Witness ==
    /\ acall.op = "get_recommendation"
    /\ acall.info.kind # "error"
    /\ Len(acall.closes) = MA_LONG - 1
    /\ "error" \in DOMAIN acall.res

\* the upstream data of symbol i of the last batch was missing or insufficient
BatchFailed(i) ==
    \/ acall.answers[i].info.kind = "error"
    \/ Len(acall.answers[i].closes) < MA_LONG

\* C12: get_portfolio_recommendations returns one result per input symbol,
\* in input order; a symbol whose data is missing or insufficient yields a
\* {symbol, error} record at its position, and every position holds what
\* get_recommendation returns for that symbol alone.
C12_OneResultPerSymbolInOrder ==
    acall.op = "get_portfolio_recommendations" =>
        /\ Len(acall.res) = Len(acall.symbols)
        /\ \A i \in 1..Len(acall.symbols) :
              /\ i \in DOMAIN acall.res
              /\ acall.res[i].symbol = acall.symbols[i]
              /\ BatchFailed(i) => DOMAIN acall.res[i] = {"symbol", "error"}
              /\ acall.res[i] \in
                    GetRecommendation(acall.symbols[i], acall.answers[i].info,
                                      acall.answers[i].closes,
                                      acall.answers[i].macd,
                                      acall.answers[i].signal)

\* a batch whose first symbol fails and whose second is recommended
C12_Witness ==
    /\ acall.op = "get_portfolio_recommendations"
    /\ Len(acall.symbols) = 2
    /\ Len(acall.res) = 2
    /\ BatchFailed(1)
    /\ "error" \in DOMAIN acall.res[1]
    /\ "recommendation" \in DOMAIN acall.res[2]

\* the four signals of the last call, as the scorer computed them
CallScores == Scores(acall.res.technical_analysis)

\* the sum of the signals (tenths) weighted 0.30, 0.25, 0.25 and 0.20
\* (hundredths), in thousandths
CallWeightedSum ==
    30 * CallScores.trend + 25 * CallScores.rsi + 25 * CallScores.macd
        + 20 * CallScores.price_position

SignalsNormalized ==
    \A k \in DOMAIN CallScores : -10 <= CallScores[k] /\ CallScores[k] <= 10

\* C16 as stated: the score is the weighted sum of the four signals, each
\* in [-1, 1], with weights 0.30, 0.25, 0.25, 0.20 that sum to 1.0, and
\* lies in [-1, 1].
C16_ScoreIsWeightedSum ==
    Recommended =>
        /\ SignalsNormalized
        /\ 10 * acall.res.score = CallWeightedSum
        /\ -100 <= acall.res.score /\ acall.res.score <= 100

\* C16 as amended: the score is that weighted sum rounded to two
\* decimals (within half a hundredth of it); the sum and the score lie in
\* [-1, 1].
C16_ScoreIsRoundedWeightedSum ==
    Recommended =>
        /\ SignalsNormalized
        /\ 30 + 25 + 25 + 20 = 100
        /\ Abs(10 * acall.res.score - CallWeightedSum) <= 5
        /\ -1000 <= CallWeightedSum /\ CallWeightedSum <= 1000
        /\ -100 <= acall.res.score /\ acall.res.score <= 100

\* a weighted sum with three decimals, reported with two
C16_Witness ==
    /\ Recommended
    /\ CallWeightedSum % 10 = 5
    /\ Abs(10 * acall.res.score - CallWeightedSum) = 5

\* C22: under the default configuration (bb_middle and ma_short are the
\* same rolling mean of 20 closes) the trend signal and the price_position
\* signal of a non-error result never have the same sign: a bullish trend
\* comes with price_position -0.3 or -1.0, a bearish trend with +0.3 or
\* +1.0, and so |score| never exceeds 0.69.
C22_TrendOpposesPricePosition ==
    Recommended =>
        /\ MA_SHORT = BB_PERIOD
        /\ CallScores.trend = 10 => CallScores.price_position \in {-3, -10}
        /\ CallScores.trend = -10 => CallScores.price_position \in {3, 10}
        /\ Abs(acall.res.score) <= 69

\* C23 as stated: the confidence of a non-error result lies in [50, 100];
\* a BUY or SELL has confidence = |score| * 100 >= 50, below the cap of
\* 100, and a HOLD has confidence = (1 - |score|) * 100 > 50.
C23_ConfidenceFromScore ==
    Recommended =>
        /\ 500 <= acall.res.confidence /\ acall.res.confidence <= 1000
        /\ acall.res.recommendation \in {"BUY", "SELL"} =>
              /\ acall.res.confidence = 10 * Abs(acall.res.score)
              /\ acall.res.confidence < 1000
        /\ acall.res.recommendation = "HOLD" =>
              /\ acall.res.confidence = 1000 - 10 * Abs(acall.res.score)
              /\ acall.res.confidence > 500

\* C23 as amended: the confidence lies in [50, 100]; it is computed from
\* the weighted sum before that is rounded to the reported score: a BUY or
\* SELL has confidence = |sum| * 100 >= 50, below the cap of 100, a HOLD has
\* confidence = (1 - |sum|) * 100 > 50, and either is within half a point
\* of the value the reported score gives.
C23_ConfidenceFromWeightedSum ==
    Recommended =>
        /\ 500 <= acall.res.confidence /\ acall.res.confidence <= 1000
        /\ acall.res.recommendation \in {"BUY", "SELL"} =>
              /\ acall.res.confidence = Abs(CallWeightedSum)
              /\ acall.res.confidence < 1000
              /\ Abs(acall.res.confidence - 10 * Abs(acall.res.score)) <= 5
        /\ acall.res.recommendation = "HOLD" =>
              /\ acall.res.confidence = 1000 - Abs(CallWeightedSum)
              /\ acall.res.confidence > 500
              /\ Abs(acall.res.confidence
                        - (1000 - 10 * Abs(acall.res.score))) <= 5

\* a HOLD whose confidence has a decimal that the reported score lacks
C23_Witness ==
    /\ Recommended
    /\ acall.res.recommendation = "HOLD"
    /\ acall.res.confidence % 10 = 5
    /\ acall.res.confidence # 1000 - 10 * Abs(acall.res.score)

====
